---------------------------- MODULE Spec2Model ----------------------------
(***************************************************************************)
(* wezback (src/src/main.rs): a wallpaper rotator for WezTerm.  It loads   *)
(* ~/.config/wezback, scans the configured directories for image files,    *)
(* picks one at random and rewrites the `local image_path` line(s) of the  *)
(* wezterm.lua file.                                                       *)
(*                                                                         *)
(* Strings are sequences of one-character strings, so that prefix tests,   *)
(* trimming, line splitting and joining are computed character by          *)
(* character as the Rust standard library computes them.                   *)
(***************************************************************************)
EXTENDS Integers, Sequences, FiniteSets, TLC

VARIABLES
    home,       \* the HOME environment variable: <<value>>, or <<>> when unset
    cwd,        \* the process's current working directory (absolute path)
    files,      \* regular files on disk: path -> [exists, text, ro]
    dirs,       \* directories on disk: canonical path -> sequence of entries
    args,       \* the parsed command line (struct Args)
    pc,         \* position of the running process
    cfg,        \* result of load_wezback_config
    images,     \* main's `images` vector (the pooled catalog)
    chosen,     \* last result of select_random_wallpaper
    status,     \* how the process stands: "running", "ok", "err" or "exit"
    attempt,    \* outcome of the last rotation attempt
    scans,      \* number of load_list_of_images calls made so far
    writes,     \* number of fs::write calls on the target file so far
    cycles,     \* number of rotation attempts made so far
    stderr,     \* number of "Could not select a wallpaper." diagnostics
    envSteps,   \* number of changes made by the environment so far
    cand,       \* the candidate path handed to update_config_file
    hist,       \* contents of the target file, before and after each patch
    scanDir,    \* the directory argument handed to load_list_of_images
    scanRes     \* the result of that call

vars == <<home, cwd, files, dirs, args, pc, cfg, images, chosen, status,
          attempt, scans, writes, cycles, stderr, envSteps, cand, hist,
          scanDir, scanRes>>

\* Option<T>: None is <<>>, Some(v) is <<v>>
None == <<>>
Some(v) == <<v>>

\* a path that names no file, and a file with its text and write permission
NoFile == [exists |-> FALSE, text |-> <<>>, ro |-> FALSE]
File(text, ro) == [exists |-> TRUE, text |-> text, ro |-> ro]

(***************************************************************************)
(* Bounds of the model.                                                    *)
(***************************************************************************)
MaxPieces == 4          \* pieces a target file is assembled from
MaxSettingsLines == 3   \* lines of a settings file
MaxEntries == 2         \* entries of a scanned directory
MaxCycles == 2          \* rotation attempts of the interactive loop
MaxPatches == 2         \* successive applications of update_config_file
MaxEnvSteps == 1        \* changes the environment makes while main waits

LF == "\n"
CR == "\r"

(***************************************************************************)
(* String helpers (Rust str methods).                                      *)
(***************************************************************************)
\* str::starts_with
StartsWith(s, p) == Len(s) >= Len(p) /\ SubSeq(s, 1, Len(p)) = p

\* char::is_whitespace, on the characters the model uses
IsWhitespace(c) == c \in {" ", "\t", LF, CR}

\* str::trim_start
RECURSIVE TrimStart(_)
TrimStart(s) ==
    IF s # <<>> /\ IsWhitespace(Head(s)) THEN TrimStart(Tail(s)) ELSE s

\* str::trim_matches(ch): strips ch from both ends
RECURSIVE TrimEndMatches(_, _)
TrimEndMatches(s, ch) ==
    IF s # <<>> /\ s[Len(s)] = ch
    THEN TrimEndMatches(SubSeq(s, 1, Len(s) - 1), ch) ELSE s

RECURSIVE TrimStartMatches(_, _)
TrimStartMatches(s, ch) ==
    IF s # <<>> /\ Head(s) = ch THEN TrimStartMatches(Tail(s), ch) ELSE s

TrimMatches(s, ch) == TrimEndMatches(TrimStartMatches(s, ch), ch)

\* index of the first occurrence of character ch in s, 0 when there is none
FirstIndex(s, ch) ==
    IF \E i \in 1..Len(s) : s[i] = ch
    THEN CHOOSE i \in 1..Len(s) : s[i] = ch /\ \A j \in 1..(i - 1) : s[j] # ch
    ELSE 0

\* index of the last occurrence of character ch in s, 0 when there is none
LastIndex(s, ch) ==
    IF \E i \in 1..Len(s) : s[i] = ch
    THEN CHOOSE i \in 1..Len(s) :
            s[i] = ch /\ \A j \in (i + 1)..Len(s) : s[j] # ch
    ELSE 0

\* str::lines: split at "\n"; a line's terminator "\n" or "\r\n" is removed;
\* no final empty line for a text ending in "\n"; a bare "\r" at the very
\* end of the text is kept
StripCR(l) == IF l # <<>> /\ l[Len(l)] = CR THEN SubSeq(l, 1, Len(l) - 1) ELSE l

RECURSIVE Lines(_)
Lines(s) ==
    IF s = <<>> THEN <<>>
    ELSE LET i == FirstIndex(s, LF) IN
         IF i = 0 THEN <<s>>
         ELSE <<StripCR(SubSeq(s, 1, i - 1))>> \o Lines(SubSeq(s, i + 1, Len(s)))

\* [String]::join(sep)
RECURSIVE Join(_, _)
Join(ls, sep) ==
    IF ls = <<>> THEN <<>>
    ELSE IF Len(ls) = 1 THEN ls[1]
    ELSE ls[1] \o sep \o Join(Tail(ls), sep)

\* str::replacen(pat, to, 1) for a one-character pattern
Replacen1(s, ch, to) ==
    LET i == FirstIndex(s, ch) IN
    IF i = 0 THEN s
    ELSE SubSeq(s, 1, i - 1) \o to \o SubSeq(s, i + 1, Len(s))

SeqToSet(s) == {s[i] : i \in 1..Len(s)}

(***************************************************************************)
(* Program constants.                                                      *)
(***************************************************************************)
\* "~/.config/wezback"
PATH_OF_CONFIG ==
    <<"~", "/", ".", "c", "o", "n", "f", "i", "g", "/",
      "w", "e", "z", "b", "a", "c", "k">>

EXTENSIONS ==
    { <<"j", "p", "e", "g">>, <<"j", "p", "g">>, <<"p", "n", "g">>,
      <<"g", "i", "f">>, <<"b", "m", "p">>, <<"i", "c", "o">>,
      <<"w", "e", "b", "p">>, <<"t", "i", "f", "f">>, <<"p", "n", "m">>,
      <<"d", "d", "s">>, <<"t", "g", "a">>,
      <<"f", "a", "r", "b", "f", "e", "l", "d">> }

\* "local image_path"
LocalImagePath ==
    <<"l", "o", "c", "a", "l", " ", "i", "m", "a", "g", "e", "_",
      "p", "a", "t", "h">>

\* " = home .. '/"
ConfMid == <<" ", "=", " ", "h", "o", "m", "e", " ", ".", ".", " ", "'", "/">>

\* format!("local image_path = home .. '/{}'", new_image)
ConfLine(new_image) == LocalImagePath \o ConfMid \o new_image \o <<"'">>

(***************************************************************************)
(* expand_tilde.  HOME unset and a leading "~": the process exits.         *)
(***************************************************************************)
Exit(code) == [tag |-> "Exit", code |-> code]
Ok(v) == [tag |-> "Ok", val |-> v]
Err(kind, key) == [tag |-> "Err", kind |-> kind, key |-> key]

expand_tilde(path) ==
    IF StartsWith(path, <<"~">>)
    THEN IF home = None THEN Exit(-1)
         ELSE Ok(Replacen1(path, "~", home[1]))
    ELSE Ok(path)

(***************************************************************************)
(* Paths.                                                                  *)
(***************************************************************************)
\* a relative path names a file under the current working directory
Absolute(p) == IF StartsWith(p, <<"/">>) THEN p ELSE cwd \o <<"/">> \o p

\* the components of a path (std::path::Path::components, "/"-separated)
RECURSIVE Components(_)
Components(p) ==
    IF p = <<>> THEN <<>>
    ELSE LET i == FirstIndex(p, "/") IN
         IF i = 0 THEN <<p>>
         ELSE IF i = 1 THEN Components(Tail(p))
         ELSE <<SubSeq(p, 1, i - 1)>> \o Components(SubSeq(p, i + 1, Len(p)))

(***************************************************************************)
(* update_config_file                                                      *)
(***************************************************************************)
\* a buggy rewrite that keeps the line's indentation
UpdatedLineKeepIndent(line, conf_line) ==
    IF StartsWith(TrimStart(line), LocalImagePath) /\ line # conf_line
    THEN SubSeq(line, 1, Len(line) - Len(TrimStart(line))) \o conf_line
    ELSE line

\* a buggy rewrite that substitutes the prefix only, keeping the old tail
UpdatedLineKeepTail(line, conf_line) ==
    IF StartsWith(TrimStart(line), LocalImagePath) /\ line # conf_line
    THEN conf_line
         \o SubSeq(TrimStart(line), Len(LocalImagePath) + 1, Len(TrimStart(line)))
    ELSE line

\* a buggy rewrite that trims the lines it passes through
UpdatedLineTrimAll(line, conf_line) ==
    IF StartsWith(TrimStart(line), LocalImagePath) /\ line # conf_line
    THEN conf_line
    ELSE TrimStart(line)

\* the closure of the .map() at lines 106-112
UpdatedLine(line, conf_line) ==
    IF StartsWith(TrimStart(line), LocalImagePath) /\ line # conf_line
    THEN conf_line
    ELSE line

\* lines 104-114: lines().map(..).collect::<Vec<String>>().join("\n")
UpdatedContents(config_contents, conf_line) ==
    LET ls == Lines(config_contents) IN
    Join([i \in 1..Len(ls) |-> UpdatedLine(ls[i], conf_line)], <<LF>>)

\* update_config_file(config_path, new_image): the result and the files after
update_config_file(config_path, new_image) ==
    LET conf_line == ConfLine(new_image)
        expanded == expand_tilde(config_path)
    IN  IF expanded.tag = "Exit" THEN [res |-> expanded, files |-> files]
        ELSE LET path == Absolute(expanded.val) IN
             IF path \notin DOMAIN files \/ ~files[path].exists
             THEN [res |-> Err("Io", "read"), files |-> files]
             ELSE IF files[path].ro
             THEN [res |-> Err("Io", "write"), files |-> files]
             ELSE [res |-> Ok(<<>>),
                   files |-> [files EXCEPT ![path].text =
                                 UpdatedContents(files[path].text, conf_line)]]

(***************************************************************************)
(* load_wezback_config                                                     *)
(***************************************************************************)
\* "images = ", "wezlua = ", "animations = "
KeyImages == <<"i", "m", "a", "g", "e", "s", " ", "=", " ">>
KeyWezlua == <<"w", "e", "z", "l", "u", "a", " ", "=", " ">>
KeyAnimations ==
    <<"a", "n", "i", "m", "a", "t", "i", "o", "n", "s", " ", "=", " ">>

\* the value of a recognised line: strip_prefix, trim_matches('"'), expand_tilde
SettingValue(line, key) ==
    expand_tilde(TrimMatches(SubSeq(line, Len(key) + 1, Len(line)), "\""))

\* the for loop at lines 40-48: a later line overrides an earlier one
RECURSIVE ScanSettings(_, _)
ScanSettings(ls, acc) ==
    IF ls = <<>> THEN acc
    ELSE LET line == Head(ls) IN
         ScanSettings(Tail(ls),
            IF StartsWith(line, KeyImages)
            THEN [acc EXCEPT !.images = Some(SettingValue(line, KeyImages))]
            ELSE IF StartsWith(line, KeyWezlua)
            THEN [acc EXCEPT !.wezlua = Some(SettingValue(line, KeyWezlua))]
            ELSE IF StartsWith(line, KeyAnimations)
            THEN [acc EXCEPT !.animations =
                                Some(SettingValue(line, KeyAnimations))]
            ELSE acc)

\* the tuple at lines 50-54, with the message each .context() carries; the
\* third message names 'images'
SettingsTuple(acc) ==
    IF acc.images = None THEN Err("MissingKey", "images")
    ELSE IF acc.images[1].tag # "Ok" THEN acc.images[1]
    ELSE IF acc.wezlua = None THEN Err("MissingKey", "wezlua")
    ELSE IF acc.wezlua[1].tag # "Ok" THEN acc.wezlua[1]
    ELSE IF acc.animations = None THEN Err("MissingKey", "images")
    ELSE IF acc.animations[1].tag # "Ok" THEN acc.animations[1]
    ELSE Ok([images |-> acc.images[1].val,
             wezlua |-> acc.wezlua[1].val,
             animations |-> acc.animations[1].val])

load_wezback_config ==
    LET config == expand_tilde(PATH_OF_CONFIG) IN
    IF config.tag = "Exit" THEN config
    ELSE LET path == Absolute(config.val) IN
         IF path \notin DOMAIN files \/ ~files[path].exists
         THEN Err("Io", "read")
         ELSE SettingsTuple(
                 ScanSettings(Lines(files[path].text),
                              [images |-> None, wezlua |-> None,
                               animations |-> None]))

(***************************************************************************)
(* load_list_of_images                                                     *)
(***************************************************************************)
\* symbolic links on disk: path -> the directory it points to
Symlinks == (<<"/", "h", "/", "l">> :> <<"/", "t", "/", "p">>)

\* Path::canonicalize: a relative path is taken from the current working
\* directory, symbolic links are resolved, and the directory must exist
canonicalize(p) ==
    LET abs == Absolute(p)
        real == IF abs \in DOMAIN Symlinks THEN Symlinks[abs] ELSE abs
    IN  IF real \in DOMAIN dirs THEN Ok(real) ELSE Err("Io", "canonicalize")

\* Path::extension of a file name, as an Option
Extension(name) ==
    LET i == LastIndex(name, ".") IN
    IF i <= 1 THEN None ELSE Some(SubSeq(name, i + 1, Len(name)))

\* Path::strip_prefix, component-wise, as an Option
StripPrefix(path, base) ==
    LET pc_ == Components(path)
        bc == Components(base)
    IN  IF Len(pc_) >= Len(bc) /\ SubSeq(pc_, 1, Len(bc)) = bc
        THEN Some(Join(SubSeq(pc_, Len(bc) + 1, Len(pc_)), <<"/">>))
        ELSE None

\* the for loop at lines 70-87 over the directory's entries
RECURSIVE CollectImages(_, _, _)
CollectImages(entries, wallpaper_dir, home_path) ==
    IF entries = <<>> THEN <<>>
    ELSE LET path == wallpaper_dir \o <<"/">> \o Head(entries).name
             extension == Extension(Head(entries).name)
             rest == CollectImages(Tail(entries), wallpaper_dir, home_path)
         IN  IF extension = None THEN rest
             ELSE IF extension[1] \in EXTENSIONS
             THEN LET stripped_path == StripPrefix(path, home_path) IN
                  IF stripped_path = None THEN rest
                  ELSE <<stripped_path[1]>> \o rest
             ELSE rest

load_list_of_images(path_of_images) ==
    LET expanded_path_of_images == expand_tilde(path_of_images) IN
    IF expanded_path_of_images.tag = "Exit" THEN expanded_path_of_images
    ELSE LET wallpaper_dir == canonicalize(expanded_path_of_images.val) IN
         IF wallpaper_dir.tag # "Ok" THEN wallpaper_dir
         ELSE IF home = None THEN Err("Env", "HOME")
         ELSE Ok(CollectImages(dirs[wallpaper_dir.val], wallpaper_dir.val,
                               home[1]))

(***************************************************************************)
(* select_random_wallpaper: the elements `choose` can return, as Options.  *)
(***************************************************************************)
select_random_wallpaper(list) ==
    IF list = <<>> THEN {None} ELSE {Some(list[i]) : i \in 1..Len(list)}

(***************************************************************************)
(* The disk and the inputs the specifications draw from.                   *)
(***************************************************************************)
HomeDir == <<"/", "h">>
TmpDir == <<"/", "t">>
SettingsPath ==                            \* PATH_OF_CONFIG under HomeDir
    <<"/", "h", "/", ".", "c", "o", "n", "f", "i", "g", "/",
      "w", "e", "z", "b", "a", "c", "k">>
LuaPath == <<"/", "h", "/", "w">>          \* the wezterm.lua file
LuaArg == <<"~", "/", "w">>                \* as configured: "~/w"
ImagesDir == <<"/", "h", "/", "p">>        \* ~/p
AnimationsDir == <<"/", "h", "/", "q">>    \* ~/q
OutsideDir == <<"/", "t", "/", "p">>       \* a directory outside HOME

Entry(name, kind) == [name |-> name, kind |-> kind]
APng == Entry(<<"a", ".", "p", "n", "g">>, "file")
BTxt == Entry(<<"b", ".", "t", "x", "t">>, "file")
CNoExt == Entry(<<"c">>, "file")
DotPng == Entry(<<".", "p", "n", "g">>, "file")
DUpper == Entry(<<"d", ".", "P", "N", "G">>, "file")
EDir == Entry(<<"e", ".", "j", "p", "g">>, "dir")
GGif == Entry(<<"g", ".", "g", "i", "f">>, "file")
NPng == Entry(<<"n", ".", "p", "n", "g">>, "file")
OPng == Entry(<<"o", ".", "p", "n", "g">>, "file")

EntryPool == {APng, BTxt, CNoExt, DotPng, DUpper, EDir}

Distinct(l) == \A i, j \in 1..Len(l) : l[i] = l[j] => i = j

\* the sequences of elements of S of length at most n
RECURSIVE SeqsUpTo(_, _)
SeqsUpTo(S, n) ==
    IF n = 0 THEN {<<>>}
    ELSE LET prev == SeqsUpTo(S, n - 1) IN
         prev \cup {Append(l, e) : l \in prev, e \in S}

Disk(imgs, anims) ==
    (ImagesDir :> imgs) @@ (AnimationsDir :> anims) @@ (OutsideDir :> <<OPng>>)

\* lines of a settings file
Quoted(v) == <<"\"">> \o v \o <<"\"">>
LImagesTilde == KeyImages \o Quoted(<<"~", "/", "p">>)
LImagesRel == KeyImages \o Quoted(<<"p">>)
LImagesGone == KeyImages \o Quoted(<<"~", "/", "m">>)
LWezlua == KeyWezlua \o Quoted(LuaArg)
LWezluaGone == KeyWezlua \o Quoted(<<"~", "/", "z">>)
LAnimations == KeyAnimations \o Quoted(<<"~", "/", "q">>)
LComment == <<"#">>
LIndented == <<" ">> \o LImagesTilde

SettingsText(ls) == Join(ls, <<LF>>) \o <<LF>>

\* candidate paths: "a", and a file name holding a line feed
Candidates == { <<"a">>, <<"a", LF, "b">> }

\* the pieces target files are assembled from
Pieces ==
    { LocalImagePath, ConfMid \o <<"a", "'">>, <<"x">>, <<" ">>, <<LF>>, <<CR>> }

RECURSIVE Texts(_)
Texts(n) ==
    IF n = 0 THEN {<<>>}
    ELSE LET prev == Texts(n - 1) IN
         prev \cup {t \o p : t \in prev, p \in Pieces}

NoArgs ==
    [all |-> FALSE, no_static |-> FALSE, once |-> FALSE, config_help |-> FALSE]

\* the state before main has done anything
Idle ==
    /\ cfg = None
    /\ images = <<>>
    /\ chosen = None
    /\ status = "running"
    /\ attempt = "none"
    /\ scans = 0
    /\ writes = 0
    /\ cycles = 0
    /\ stderr = 0
    /\ envSteps = 0
    /\ scanRes = None

(***************************************************************************)
(* SpecPatch: update_config_file applied repeatedly to a target file.      *)
(***************************************************************************)
PatchInit ==
    /\ Idle
    /\ home = Some(HomeDir)
    /\ cwd = HomeDir
    /\ dirs = Disk(<<>>, <<>>)
    /\ args = NoArgs
    /\ scanDir = <<>>
    /\ pc = "patch"
    /\ cand \in Candidates
    /\ \E t \in Texts(MaxPieces) :
          /\ files = (LuaPath :> File(t, FALSE))
          /\ hist = <<t>>

\* one application of update_config_file to the target file
Patch ==
    /\ pc = "patch"
    /\ Len(hist) <= MaxPatches
    /\ LET r == update_config_file(LuaArg, cand) IN
          /\ files' = r.files
          /\ hist' = Append(hist, r.files[LuaPath].text)
          /\ status' = IF r.res.tag = "Ok" THEN "running" ELSE "err"
          /\ writes' = IF r.res.tag = "Ok" THEN writes + 1 ELSE writes
    /\ UNCHANGED <<home, cwd, dirs, args, pc, cfg, images, chosen, attempt,
                   scans, cycles, stderr, envSteps, cand, scanDir, scanRes>>

PatchNext == Patch

SpecPatch == PatchInit /\ [][PatchNext]_vars

(***************************************************************************)
(* SpecLoad: load_wezback_config applied to a settings file.               *)
(***************************************************************************)
LoadLines ==
    {LImagesTilde, LImagesRel, LWezlua, LAnimations, LComment, LIndented}

LoadInit ==
    /\ Idle
    /\ home \in {Some(HomeDir), None}
    /\ cwd = HomeDir
    /\ dirs = Disk(<<>>, <<>>)
    /\ args = NoArgs
    /\ scanDir = <<>>
    /\ cand = <<>>
    /\ hist = <<>>
    /\ pc = "start"
    /\ \E f \in {NoFile} \cup
                {File(SettingsText(ls), FALSE) :
                    ls \in SeqsUpTo(LoadLines, MaxSettingsLines)} :
          files = (SettingsPath :> f)

Load ==
    /\ pc = "start"
    /\ cfg' = Some(load_wezback_config)
    /\ pc' = "done"
    /\ status' = CASE load_wezback_config.tag = "Ok" -> "running"
                   [] load_wezback_config.tag = "Err" -> "err"
                   [] OTHER -> "exit"
    /\ UNCHANGED <<home, cwd, files, dirs, args, images, chosen, attempt,
                   scans, writes, cycles, stderr, envSteps, cand, hist,
                   scanDir, scanRes>>

LoadNext == Load

SpecLoad == LoadInit /\ [][LoadNext]_vars

(***************************************************************************)
(* SpecScan: load_list_of_images applied to a directory.                   *)
(***************************************************************************)
ScanArgs ==
    { <<"~", "/", "p">>, <<"p">>, ImagesDir, OutsideDir,
      <<"~", "/", "m">>, <<"~", "/", "l">> }

ScanInit ==
    /\ Idle
    /\ home \in {Some(HomeDir), None}
    /\ cwd \in {HomeDir, TmpDir}
    /\ \E l \in {x \in SeqsUpTo(EntryPool, MaxEntries) : Distinct(x)} :
          dirs = Disk(l, <<>>)
    /\ args = NoArgs
    /\ files = (SettingsPath :> NoFile)
    /\ cand = <<>>
    /\ hist = <<>>
    /\ pc = "scan"
    /\ scanDir \in ScanArgs

Scan ==
    /\ pc = "scan"
    /\ scanRes' = Some(load_list_of_images(scanDir))
    /\ scans' = scans + 1
    /\ pc' = "done"
    /\ UNCHANGED <<home, cwd, files, dirs, args, cfg, images, chosen, status,
                   attempt, writes, cycles, stderr, envSteps, cand, hist,
                   scanDir>>

ScanNext == Scan

SpecScan == ScanInit /\ [][ScanNext]_vars

(***************************************************************************)
(* Spec: main.  Args::parse has run; the process then loads the settings,  *)
(* scans the images directory and runs once, prints the settings help, or  *)
(* pools the catalog and loops, waiting for Enter between two rotations.   *)
(* While main waits, the environment may change the disk.                  *)
(***************************************************************************)
\* clap rejects --all together with --no-static (conflicts_with)
ArgsSet ==
    {a \in [all : BOOLEAN, no_static : BOOLEAN, once : BOOLEAN,
            config_help : BOOLEAN] : ~(a.all /\ a.no_static)}

MainSettings ==
    { <<LImagesTilde, LWezlua, LAnimations>>,
      <<LImagesRel, LWezlua, LAnimations>>,
      <<LImagesGone, LWezlua, LAnimations>>,
      <<LImagesTilde, LWezluaGone, LAnimations>>,
      <<LImagesTilde, LAnimations>>,
      <<LImagesTilde, LWezlua>> }

MainTarget == LocalImagePath \o <<" ", "=", " ", "x", LF, "x", LF>>

Init ==
    /\ Idle
    /\ home \in {Some(HomeDir), None}
    /\ cwd \in {HomeDir, TmpDir}
    /\ args \in ArgsSet
    /\ \E imgs \in {<<>>, <<APng>>, <<APng, BTxt>>}, anims \in {<<>>, <<GGif>>} :
          dirs = Disk(imgs, anims)
    /\ \E f \in {NoFile} \cup {File(SettingsText(ls), FALSE) : ls \in MainSettings},
          ro \in BOOLEAN :
          files = (SettingsPath :> f) @@ (LuaPath :> File(MainTarget, ro))
    /\ cand = <<>>
    /\ hist = <<>>
    /\ scanDir = <<>>
    /\ pc = "start"

\* how a Result that is not Ok ends main: `?` returns the error, and
\* process::exit ends the process
Ended(res) == IF res.tag = "Exit" THEN "exit" ELSE "err"

\* a load that goes on with default settings when loading failed
MainLoadUnchecked ==
    /\ pc = "start"
    /\ LET r == load_wezback_config IN
          /\ cfg' = Some(IF r.tag = "Ok" THEN r
                         ELSE Ok([images |-> <<"~", "/", "p">>,
                                  wezlua |-> LuaArg,
                                  animations |-> <<"~", "/", "q">>]))
          /\ pc' = "scan"
          /\ status' = "running"
    /\ UNCHANGED <<home, cwd, files, dirs, args, images, chosen, attempt,
                   scans, writes, cycles, stderr, envSteps, cand, hist,
                   scanDir, scanRes>>

\* line 144: load_wezback_config()?
MainLoad ==
    /\ pc = "start"
    /\ LET r == load_wezback_config IN
          /\ cfg' = Some(r)
          /\ pc' = IF r.tag = "Ok" THEN "scan" ELSE "done"
          /\ status' = IF r.tag = "Ok" THEN "running" ELSE Ended(r)
    /\ UNCHANGED <<home, cwd, files, dirs, args, images, chosen, attempt,
                   scans, writes, cycles, stderr, envSteps, cand, hist,
                   scanDir, scanRes>>

\* line 146: load_list_of_images(&path_of_images)?
MainScan ==
    /\ pc = "scan"
    /\ LET r == load_list_of_images(cfg[1].val.images) IN
          /\ scans' = scans + 1
          /\ scanDir' = cfg[1].val.images
          /\ scanRes' = Some(r)
          /\ images' = IF r.tag = "Ok" THEN r.val ELSE images
          /\ pc' = IF r.tag = "Ok" THEN "dispatch" ELSE "done"
          /\ status' = IF r.tag = "Ok" THEN "running" ELSE Ended(r)
    /\ UNCHANGED <<home, cwd, files, dirs, args, cfg, chosen, attempt, writes,
                   cycles, stderr, envSteps, cand, hist>>

\* one rotation attempt (lines 149-153 and 175-179): select, then patch the
\* target file; `onOk` and `onOkStatus` say where main stands after an
\* attempt that returned no error; a patch that fails ends main (`?`)
Rotate(onOk, onOkStatus) ==
    \E sel \in select_random_wallpaper(images) :
       /\ chosen' = sel
       /\ cycles' = cycles + 1
       /\ IF sel = None
          THEN /\ stderr' = stderr + 1
               /\ attempt' = "empty"
               /\ pc' = onOk
               /\ status' = onOkStatus
               /\ UNCHANGED <<files, writes, cand, hist>>
          ELSE LET r == update_config_file(cfg[1].val.wezlua, sel[1]) IN
               /\ cand' = sel[1]
               /\ files' = r.files
               /\ hist' = <<files[LuaPath].text, r.files[LuaPath].text>>
               /\ writes' = IF r.res.tag = "Ok" THEN writes + 1 ELSE writes
               /\ attempt' = IF r.res.tag = "Ok" THEN "ok" ELSE "failed"
               /\ pc' = IF r.res.tag = "Ok" THEN onOk ELSE "done"
               /\ status' = IF r.res.tag = "Ok" THEN onOkStatus ELSE Ended(r.res)
               /\ UNCHANGED stderr

\* lines 148-155: --once
MainOnce ==
    /\ pc = "dispatch"
    /\ args.once
    /\ Rotate("done", "ok")
    /\ UNCHANGED <<home, cwd, dirs, args, cfg, images, scans, envSteps,
                   scanDir, scanRes>>

\* lines 157-165: --config-help
MainConfigHelp ==
    /\ pc = "dispatch"
    /\ ~args.once
    /\ args.config_help
    /\ pc' = "done"
    /\ status' = "ok"
    /\ UNCHANGED <<home, cwd, files, dirs, args, cfg, images, chosen, attempt,
                   scans, writes, cycles, stderr, envSteps, cand, hist,
                   scanDir, scanRes>>

\* lines 167-172: the pool the loop draws from
MainPool ==
    /\ pc = "dispatch"
    /\ ~args.once
    /\ ~args.config_help
    /\ IF args.all \/ args.no_static
       THEN LET r == load_list_of_images(cfg[1].val.animations) IN
            /\ scans' = scans + 1
            /\ scanDir' = cfg[1].val.animations
            /\ scanRes' = Some(r)
            /\ images' = IF r.tag # "Ok" THEN images
                         ELSE IF args.all THEN images \o r.val
                         ELSE r.val
            /\ pc' = IF r.tag = "Ok" THEN "select" ELSE "done"
            /\ status' = IF r.tag = "Ok" THEN "running" ELSE Ended(r)
       ELSE /\ pc' = "select"
            /\ UNCHANGED <<scans, scanDir, scanRes, images, status>>
    /\ UNCHANGED <<home, cwd, files, dirs, args, cfg, chosen, attempt, writes,
                   cycles, stderr, envSteps, cand, hist>>

\* a loop body that reports a failed patch and goes on to the prompt
LoopSelectKeepGoing ==
    /\ pc = "select"
    /\ \E sel \in select_random_wallpaper(images) :
          /\ chosen' = sel
          /\ cycles' = cycles + 1
          /\ pc' = "prompt"
          /\ status' = "running"
          /\ IF sel = None
             THEN /\ stderr' = stderr + 1
                  /\ attempt' = "empty"
                  /\ UNCHANGED <<files, writes, cand, hist>>
             ELSE LET r == update_config_file(cfg[1].val.wezlua, sel[1]) IN
                  /\ cand' = sel[1]
                  /\ files' = r.files
                  /\ hist' = <<files[LuaPath].text, r.files[LuaPath].text>>
                  /\ writes' = IF r.res.tag = "Ok" THEN writes + 1 ELSE writes
                  /\ attempt' = IF r.res.tag = "Ok" THEN "ok" ELSE "failed"
                  /\ stderr' = IF r.res.tag = "Ok" THEN stderr ELSE stderr + 1
    /\ UNCHANGED <<home, cwd, dirs, args, cfg, images, scans, envSteps,
                   scanDir, scanRes>>

\* a loop body that returns an error when nothing can be selected
LoopSelectBail ==
    /\ pc = "select"
    /\ \E sel \in select_random_wallpaper(images) :
          /\ chosen' = sel
          /\ cycles' = cycles + 1
          /\ IF sel = None
             THEN /\ attempt' = "empty"
                  /\ pc' = "done"
                  /\ status' = "err"
                  /\ UNCHANGED <<files, writes, cand, hist, stderr>>
             ELSE LET r == update_config_file(cfg[1].val.wezlua, sel[1]) IN
                  /\ cand' = sel[1]
                  /\ files' = r.files
                  /\ hist' = <<files[LuaPath].text, r.files[LuaPath].text>>
                  /\ writes' = IF r.res.tag = "Ok" THEN writes + 1 ELSE writes
                  /\ attempt' = IF r.res.tag = "Ok" THEN "ok" ELSE "failed"
                  /\ pc' = IF r.res.tag = "Ok" THEN "prompt" ELSE "done"
                  /\ status' = IF r.res.tag = "Ok" THEN "running"
                               ELSE Ended(r.res)
                  /\ UNCHANGED stderr
    /\ UNCHANGED <<home, cwd, dirs, args, cfg, images, scans, envSteps,
                   scanDir, scanRes>>

\* lines 175-181: the loop body up to the prompt
LoopSelect ==
    /\ pc = "select"
    /\ Rotate("prompt", "running")
    /\ UNCHANGED <<home, cwd, dirs, args, cfg, images, scans, envSteps,
                   scanDir, scanRes>>

\* the pool as a fresh scan of the disk would give it
FreshPool ==
    LET stat == load_list_of_images(cfg[1].val.images)
        anim == load_list_of_images(cfg[1].val.animations)
    IN  IF args.all THEN stat.val \o anim.val
        ELSE IF args.no_static THEN anim.val
        ELSE stat.val

\* a wait that scans the directories again before the next iteration
LoopPromptRescan ==
    /\ pc = "prompt"
    /\ cycles < MaxCycles
    /\ pc' = "select"
    /\ images' = IF args.all \/ args.no_static THEN FreshPool ELSE images
    /\ scans' = IF args.all \/ args.no_static THEN scans + 1 ELSE scans
    /\ UNCHANGED <<home, cwd, files, dirs, args, cfg, chosen, status, attempt,
                   writes, cycles, stderr, envSteps, cand, hist, scanDir,
                   scanRes>>

\* lines 183-185: read_line returns (Enter), clear(), next iteration
LoopPrompt ==
    /\ pc = "prompt"
    /\ cycles < MaxCycles
    /\ pc' = "select"
    /\ UNCHANGED <<home, cwd, files, dirs, args, cfg, images, chosen, status,
                   attempt, scans, writes, cycles, stderr, envSteps, cand,
                   hist, scanDir, scanRes>>

\* the environment, while main waits for Enter: a file appears in a scanned
\* directory
EnvAddFile ==
    /\ pc = "prompt"
    /\ envSteps < MaxEnvSteps
    /\ \E d \in {ImagesDir, AnimationsDir} :
          /\ NPng \notin SeqToSet(dirs[d])
          /\ dirs' = [dirs EXCEPT ![d] = Append(dirs[d], NPng)]
    /\ envSteps' = envSteps + 1
    /\ UNCHANGED <<home, cwd, files, args, pc, cfg, images, chosen, status,
                   attempt, scans, writes, cycles, stderr, cand, hist,
                   scanDir, scanRes>>

\* ... a file of a scanned directory is removed
EnvRemoveFile ==
    /\ pc = "prompt"
    /\ envSteps < MaxEnvSteps
    /\ \E d \in {ImagesDir, AnimationsDir} :
          /\ dirs[d] # <<>>
          /\ dirs' = [dirs EXCEPT ![d] = Tail(dirs[d])]
    /\ envSteps' = envSteps + 1
    /\ UNCHANGED <<home, cwd, files, args, pc, cfg, images, chosen, status,
                   attempt, scans, writes, cycles, stderr, cand, hist,
                   scanDir, scanRes>>

\* ... the target file becomes read-only
EnvReadOnly ==
    /\ pc = "prompt"
    /\ envSteps < MaxEnvSteps
    /\ ~files[LuaPath].ro
    /\ files' = [files EXCEPT ![LuaPath].ro = TRUE]
    /\ envSteps' = envSteps + 1
    /\ UNCHANGED <<home, cwd, dirs, args, pc, cfg, images, chosen, status,
                   attempt, scans, writes, cycles, stderr, cand, hist,
                   scanDir, scanRes>>

Next ==
    \/ MainLoad
    \/ MainScan
    \/ MainOnce
    \/ MainConfigHelp
    \/ MainPool
    \/ LoopSelect
    \/ LoopPrompt
    \/ EnvAddFile
    \/ EnvRemoveFile
    \/ EnvReadOnly

Spec == Init /\ [][Next]_vars

(***************************************************************************)
(* Claims about update_config_file.                                        *)
(***************************************************************************)
\* the lines update_config_file rewrites: trimmed content starts with the prefix
IsImagePathLine(line) == StartsWith(TrimStart(line), LocalImagePath)

MatchingLines(text) ==
    {i \in 1..Len(Lines(text)) : IsImagePathLine(Lines(text)[i])}

\* the frame condition of C1, between a file's text before and after a patch
OnlyMatchingLinesChange(before, after) ==
    LET l1 == Lines(before)
        l2 == Lines(after)
    IN  /\ Len(l2) = Len(l1)
        /\ \A i \in 1..Len(l1) : ~IsImagePathLine(l1[i]) => l2[i] = l1[i]
        /\ MatchingLines(before) = {} => l2 = l1

\* the last line is not empty and no line ends in a carriage return
PlainLines(text) ==
    LET ls == Lines(text) IN
    /\ ls # <<>> => ls[Len(ls)] # <<>>
    /\ \A i \in 1..Len(ls) : ls[i] # <<>> => ls[i][Len(ls[i])] # CR

NoLineFeed(s) == LF \notin SeqToSet(s)

\* C1 as stated: for every file content and candidate, a patch returns no
\* error, keeps the number and order of the lines and leaves every line that
\* does not start (after leading whitespace) with `local image_path` as it was.
C1_Original ==
    Len(hist) >= 2 =>
        status = "running" /\ OnlyMatchingLinesChange(hist[1], hist[2])

\* C1 amended: the same, for a file whose last line is not empty and none of
\* whose lines ends in a carriage return, and a candidate without line feed.
C1_FrameOnPlainFiles ==
    (Len(hist) >= 2 /\ PlainLines(hist[1]) /\ NoLineFeed(cand)) =>
        status = "running" /\ OnlyMatchingLinesChange(hist[1], hist[2])

\* C1 witness: a plain file with exactly one matching line and another line,
\* patched, and changed by the patch.
C1_Witness ==
    /\ Len(hist) >= 2
    /\ PlainLines(hist[1]) /\ NoLineFeed(cand)
    /\ Cardinality(MatchingLines(hist[1])) = 1
    /\ Len(Lines(hist[1])) >= 2
    /\ hist[2] # hist[1]

\* C2 as stated: a second patch with the same candidate leaves the content
\* exactly as the first patch left it.
C2_Original ==
    \A k \in 2..(Len(hist) - 1) : hist[k + 1] = hist[k]

\* C2 amended: the same, for a file whose last line is not empty and none of
\* whose lines ends in a carriage return, and a candidate without line feed.
C2_IdempotentOnPlainFiles ==
    (PlainLines(hist[1]) /\ NoLineFeed(cand)) =>
        \A k \in 2..(Len(hist) - 1) : hist[k + 1] = hist[k]

\* C2 witness: a plain file with a matching line, changed by the first patch
\* and patched a second time.
C2_Witness ==
    /\ Len(hist) >= 3
    /\ PlainLines(hist[1]) /\ NoLineFeed(cand)
    /\ MatchingLines(hist[1]) # {}
    /\ hist[2] # hist[1]

\* C7: after a patch the file is the lines read, every matching line replaced
\* by exactly the replacement line (indentation dropped), joined by "\n"; no
\* error whatever the number of matching lines.
C7_AllMatchesRewritten ==
    Len(hist) >= 2 =>
        /\ status = "running"
        /\ hist[2] =
              LET ls == Lines(hist[1]) IN
              Join([i \in 1..Len(ls) |->
                      IF IsImagePathLine(ls[i]) THEN ConfLine(cand) ELSE ls[i]],
                   <<LF>>)

\* C7 witness: a file with two matching lines, one of them indented, patched.
C7_Witness ==
    /\ Len(hist) >= 2
    /\ Cardinality(MatchingLines(hist[1])) >= 2
    /\ \E i \in MatchingLines(hist[1]) :
          ~StartsWith(Lines(hist[1])[i], LocalImagePath)
    /\ hist[2] # hist[1]

(***************************************************************************)
(* Claims about load_wezback_config.                                       *)
(***************************************************************************)
SettingsRead == files[SettingsPath].exists /\ home # None

\* a line of the settings file starts with the key's prefix
KeyPresent(key) ==
    \E i \in 1..Len(Lines(files[SettingsPath].text)) :
        StartsWith(Lines(files[SettingsPath].text)[i], key)

FirstAbsentKey ==
    IF ~KeyPresent(KeyImages) THEN "images"
    ELSE IF ~KeyPresent(KeyWezlua) THEN "wezlua"
    ELSE IF ~KeyPresent(KeyAnimations) THEN "animations"
    ELSE "none"

\* C3 as stated: when a key is absent from the settings file, loading fails
\* and the error names the first absent key, in the order images, wezlua,
\* animations.
C3_Original ==
    (cfg # None /\ SettingsRead /\ FirstAbsentKey # "none") =>
        /\ cfg[1].tag = "Err"
        /\ cfg[1].kind = "MissingKey"
        /\ cfg[1].key = FirstAbsentKey

(***************************************************************************)
(* Claims about load_list_of_images.                                       *)
(***************************************************************************)
\* the entries of directory d with an allow-listed extension, as paths
\* relative to `base`, regular files only or of any kind
AllowedNames(d, regularOnly) ==
    {e.name : e \in {x \in SeqToSet(dirs[d]) :
                        /\ Extension(x.name) # None
                        /\ Extension(x.name)[1] \in EXTENSIONS
                        /\ regularOnly => x.kind = "file"}}

UnderHome(d) == StartsWith(d \o <<"/">>, HomeDir \o <<"/">>)

RelativeToHome(path) == SubSeq(path, Len(HomeDir) + 2, Len(path))

\* C4 as stated: a scan returns exactly the home-relative paths of the
\* entries that are regular files with an allow-listed extension under the
\* home directory, and no returned path is absolute.
C4_Original ==
    (scanRes # None /\ scanRes[1].tag = "Ok") =>
        LET d == canonicalize(expand_tilde(scanDir).val).val IN
        /\ SeqToSet(scanRes[1].val) =
              IF UnderHome(d)
              THEN {RelativeToHome(d \o <<"/">> \o n) : n \in AllowedNames(d, TRUE)}
              ELSE {}
        /\ \A r \in SeqToSet(scanRes[1].val) : ~StartsWith(r, <<"/">>)

\* C6 as stated: a configured directory that is relative and has no leading
\* "~" is scanned under the home directory, whatever the working directory.
C6_Original ==
    (scanRes # None /\ home # None /\ scanDir = <<"p">>) =>
        /\ scanRes[1].tag = "Ok"
        /\ SeqToSet(scanRes[1].val) =
              {<<"p", "/">> \o n : n \in AllowedNames(ImagesDir, FALSE)}

(***************************************************************************)
(* Claims about main.                                                      *)
(***************************************************************************)
\* C5: no directory scan and no write to the target file happens in a run
\* whose settings do not load.
C5_NoScanNoWriteWithoutSettings ==
    (scans > 0 \/ writes > 0) =>
        /\ load_wezback_config.tag = "Ok"
        /\ cfg # None /\ cfg[1].tag = "Ok"

\* C5 witness: a run that ended because the settings lack the wezlua key.
C5_Witness ==
    /\ pc = "done"
    /\ cfg # None /\ cfg[1].tag = "Err" /\ cfg[1].key = "wezlua"
    /\ scans = 0 /\ writes = 0

\* C8: a rotation attempt on an empty pool selects nothing, writes nothing,
\* reports the problem and does not end in an error: the loop goes on to its
\* prompt, --once returns Ok; on a non-empty pool the selection is an element
\* of the pool.
C8_EmptyPoolSkipsTheCycle ==
    [][ /\ (pc = "select" /\ images = <<>>) =>
              /\ chosen' = None
              /\ files' = files /\ writes' = writes
              /\ stderr' = stderr + 1
              /\ pc' = "prompt" /\ status' = "running"
        /\ (pc = "dispatch" /\ args.once /\ images = <<>>) =>
              /\ chosen' = None
              /\ files' = files /\ writes' = writes
              /\ stderr' = stderr + 1
              /\ pc' = "done" /\ status' = "ok"
        /\ ((pc = "select" \/ (pc = "dispatch" /\ args.once)) /\ images # <<>>) =>
              /\ chosen' # None
              /\ chosen'[1] \in SeqToSet(images)
      ]_vars

\* C8 witness: the loop at its prompt after an attempt on an empty pool.
C8_Witness ==
    /\ pc = "prompt" /\ status = "running"
    /\ attempt = "empty" /\ images = <<>> /\ writes = 0

\* C9 as stated: with --all or --no-static, the pool an iteration of the loop
\* selects from is what a scan of the directories gives at that time.
C9_Original ==
    (pc = "select" /\ (args.all \/ args.no_static)) =>
        SeqToSet(images) = SeqToSet(FreshPool)

\* C9 amended: in the loop, with or without --all or --no-static, the pool
\* is the one scanned before the loop: no iteration scans a directory or
\* changes the pool, whatever happens to the directories.
C9_PoolScannedOnce ==
    [][(pc = "select" \/ pc = "prompt") =>
          (images' = images /\ scans' = scans)]_vars

\* C9 witness: a second iteration of the --all loop about to select from a
\* pool that differs from what the directories hold.
C9_Witness ==
    /\ pc = "select" /\ cycles >= 1
    /\ args.all
    /\ SeqToSet(images) # SeqToSet(FreshPool)

\* C10 as stated: in the loop, an attempt whose patch failed is abandoned and
\* the process keeps running.
C10_Original ==
    (~args.once /\ attempt = "failed") => status = "running"

\* C10 amended: in the loop, an attempt whose patch failed (the target file
\* cannot be read or written) ends the process with that error; so does a
\* directory scan that fails, which happens before the loop only; and
\* nothing happens after an error.
C10_FailureEndsTheLoop ==
    [][ /\ (~args.once /\ attempt' = "failed") =>
              (status' = "err" /\ pc' = "done")
        /\ (scans' # scans /\ scanRes'[1].tag = "Err") =>
              (status' = "err" /\ pc' = "done")
        /\ status # "err"
      ]_vars

\* C10 witness: the loop ended by a failed patch in its second iteration.
C10_Witness ==
    /\ ~args.once /\ attempt = "failed" /\ cycles >= 2
    /\ pc = "done" /\ status = "err"

=============================================================================
